---- MODULE Spec2Model ----
(***************************************************************************)
(* Keccak lane rotate/conversion gates (keccak256/src/gates/running_sum.rs) *)
(*                                                                         *)
(* Five specifications over one set of variables:                          *)
(*   SchedSpec      the chunk scheduler: get_step_size iterated by the     *)
(*                  while-loop of LaneRotateConversionConfig::configure    *)
(*   Spec           LaneRotateConversionConfig::configure with every gate  *)
(*                  its Chunk units emit, then rows checked against them   *)
(*   RunningSumSpec one RunningSumConfig and a chain of rows checked       *)
(*                  against its "mul" gate                                 *)
(*   BlockCountSpec rows checked against BlockCountAccConfig gates         *)
(*   FinalCheckSpec the BlockCountFinalConfig gate evaluated on a row      *)
(*                                                                         *)
(* Field values are residues modulo the prime P.  The circuit's field is a *)
(* ~255-bit prime field; P is a small prime that is still larger than      *)
(* every constant of the final check (169) so that the enumerated roots    *)
(* are distinct field elements, as they are in the circuit's field.        *)
(***************************************************************************)
EXTENDS Integers, Sequences, FiniteSets, TLC

VARIABLES
    keccak_rotation,               \* LaneRotateConversionConfig::configure argument
    chunk_idx,                     \* loop variable of the scheduler
    chunk_rotate_convert_configs,  \* steps of the Chunk units pushed so far
    gates,                         \* gates created in the ConstraintSystem, in order
    pc,                            \* "loop" | "done" | "abort" | "rows"
    step,                          \* RunningSumConfig.step
    base,                          \* RunningSumConfig.base
    q_enable,                      \* selector column, one 0/1 per checked row
    is_final,                      \* selector column, one 0/1 per checked row
    cols,                          \* base -> rows of [coef, slice, accumulator]
    block_count_cols,              \* rows of [block_count, step2_acc, step3_acc]
    bc_steps,                      \* step of the BlockCountAccConfig enabled on each checked row
    final_polys                    \* polys of "block count final check" on the last row, or <<>>

vars == <<keccak_rotation, chunk_idx, chunk_rotate_convert_configs, gates, pc,
          step, base, q_enable, is_final, cols, block_count_cols, bc_steps,
          final_polys>>

laneVars == <<keccak_rotation, chunk_idx, chunk_rotate_convert_configs, gates>>
rsVars   == <<step, base, q_enable, is_final, cols>>
bcVars   == <<block_count_cols, bc_steps, final_polys>>

----------------------------------------------------------------------------
(* Bounds *)

MaxRows == 3          \* rows of a checked chain
MaxCoef == 2          \* coef and block_count cells drawn from 0..MaxCoef
MaxSlice == 1         \* first-row slices drawn from 0..MaxSlice
MaxFree == 1          \* cells no enabled constraint fixes are drawn from 0..MaxFree
MaxAcc == 10          \* first-row accumulators drawn from 0..MaxAcc

----------------------------------------------------------------------------
(* Program constants *)

P == 173
BASE_NUM_OF_CHUNKS == 4
LANE_SIZE == 64
B13 == 13
B9 == 9

Field == 0 .. (P - 1)
Bases == {B13, B9}

(* F::from(u64) *)
FromU64(x) == x % P
FAdd(a, b) == (a + b) % P
FSub(a, b) == (a - b + P) % P
FMul(a, b) == (a * b) % P

(* u64::pow(base, step); the results used here are below 2^31 *)
RECURSIVE U64Pow(_, _)
U64Pow(b, e) == IF e = 0 THEN 1 ELSE b * U64Pow(b, e - 1)

----------------------------------------------------------------------------
(* get_step_size *)

(* variant: the "near the end of the lane" branch left out *)
get_step_size_no_lane_end(idx, rotation) ==
    IF idx < rotation /\ rotation < idx + BASE_NUM_OF_CHUNKS
    THEN rotation - idx
    ELSE BASE_NUM_OF_CHUNKS

(* variant: the "near the rotation position" branch left out *)
get_step_size_no_pivot(idx, rotation) ==
    IF idx < LANE_SIZE /\ LANE_SIZE < idx + BASE_NUM_OF_CHUNKS
    THEN LANE_SIZE - idx
    ELSE BASE_NUM_OF_CHUNKS

(* variant: chunk_idx <= rotation in place of chunk_idx < rotation *)
get_step_size_pivot_inclusive(idx, rotation) ==
    IF idx <= rotation /\ rotation < idx + BASE_NUM_OF_CHUNKS
    THEN rotation - idx
    ELSE IF idx < LANE_SIZE /\ LANE_SIZE < idx + BASE_NUM_OF_CHUNKS
    THEN LANE_SIZE - idx
    ELSE BASE_NUM_OF_CHUNKS

get_step_size(idx, rotation) ==
    IF idx < rotation /\ rotation < idx + BASE_NUM_OF_CHUNKS
    THEN rotation - idx
    ELSE IF idx < LANE_SIZE /\ LANE_SIZE < idx + BASE_NUM_OF_CHUNKS
    THEN LANE_SIZE - idx
    ELSE BASE_NUM_OF_CHUNKS

----------------------------------------------------------------------------
(* Helpers over sequences of steps *)

RECURSIVE SumSeq(_)
SumSeq(s) == IF s = <<>> THEN 0 ELSE Head(s) + SumSeq(Tail(s))

(* start index of the i-th chunk (1-based) of a sequence of steps *)
ChunkStart(s, i) == 1 + SumSeq(SubSeq(s, 1, i - 1))

----------------------------------------------------------------------------
(* Idle values of the variables a specification does not use *)

LaneIdle ==
    /\ keccak_rotation = 0
    /\ chunk_idx = 1
    /\ chunk_rotate_convert_configs = <<>>
    /\ gates = <<>>

RsIdle ==
    /\ step = 1
    /\ base = B13
    /\ q_enable = <<>>
    /\ is_final = <<>>
    /\ cols = [b \in Bases |-> <<>>]

BcIdle ==
    /\ block_count_cols = <<>>
    /\ bc_steps = <<>>
    /\ final_polys = <<>>

----------------------------------------------------------------------------
(* SchedSpec: the scheduler of LaneRotateConversionConfig::configure *)

SchedInit ==
    /\ keccak_rotation \in 0 .. (LANE_SIZE - 1)
    /\ chunk_idx = 1
    /\ chunk_rotate_convert_configs = <<>>
    /\ gates = <<>>
    /\ pc = "loop"
    /\ RsIdle
    /\ BcIdle

(* one iteration of `while chunk_idx < 64` *)
SchedStep ==
    /\ pc = "loop"
    /\ chunk_idx < 64
    /\ LET s == get_step_size(chunk_idx, keccak_rotation) IN
         /\ chunk_idx' = chunk_idx + s
         /\ chunk_rotate_convert_configs' = Append(chunk_rotate_convert_configs, s)
         /\ pc' = IF chunk_idx + s < 64 THEN "loop" ELSE "done"
    /\ UNCHANGED <<keccak_rotation, gates>>
    /\ UNCHANGED rsVars
    /\ UNCHANGED bcVars

SchedNext == SchedStep

SchedSpec == SchedInit /\ [][SchedNext]_vars

----------------------------------------------------------------------------
(* RunningSumConfig::configure, gate "mul": its three polynomials, each     *)
(* over the cells it queries.  q and f are the values of the q_enable and   *)
(* is_final selectors on the row.                                           *)

(* variant: exponent step + 1 *)
slice_multiplier_off_by_one(stp, b) == FromU64(U64Pow(b, stp + 1))

slice_multiplier(stp, b) == FromU64(U64Pow(b, stp))

(* variant: acc + coef * slice in place of acc - coef * slice *)
CheckNextAccPoly_plus(q, f, c, s, acc, next_acc) ==
    FMul(q, FMul(FSub(f, FromU64(1)),
                 FSub(next_acc, FAdd(acc, FMul(c, s)))))

(* "(not final) check next acc" *)
CheckNextAccPoly(q, f, c, s, acc, next_acc) ==
    FMul(q, FMul(FSub(f, FromU64(1)),
                 FSub(next_acc, FSub(acc, FMul(c, s)))))

(* "(final) check acc" *)
CheckAccPoly(q, f, c, s, acc) ==
    FMul(q, FMul(f, FSub(acc, FMul(c, s))))

(* "next slice" *)
NextSlicePoly(q, s, next_slice, stp, b) ==
    FMul(q, FSub(next_slice, FMul(s, slice_multiplier(stp, b))))

(* the polynomials of the gate on a row, in the order the gate lists them *)
RunningSumGate(stp, b, q, f, cur, nxt) ==
    << CheckNextAccPoly(q, f, cur.coef, cur.slice, cur.accumulator, nxt.accumulator),
       CheckAccPoly(q, f, cur.coef, cur.slice, cur.accumulator),
       NextSlicePoly(q, cur.slice, nxt.slice, stp, b) >>

AllZero(polys) == \A k \in 1 .. Len(polys) : polys[k] = 0

(* Values from which the cells of the next row are drawn: the whole field   *)
(* for a cell an enabled constraint of the row determines, 0..MaxFree for a *)
(* cell that no constraint of the row restricts.                            *)
SliceCandidates(q) == IF q = 1 THEN Field ELSE 0 .. MaxFree
AccCandidates(q, f) == IF q = 1 /\ f = 0 THEN Field ELSE 0 .. MaxFree

(* the (slice, accumulator) pairs of the next row with which the row `cur`  *)
(* satisfies the gate *)
SatisfyingNext(stp, b, q, f, cur) ==
    IF CheckAccPoly(q, f, cur.coef, cur.slice, cur.accumulator) # 0
    THEN {}
    ELSE { n \in [ slice : { ns \in SliceCandidates(q) :
                               NextSlicePoly(q, cur.slice, ns, stp, b) = 0 },
                   accumulator : { na \in AccCandidates(q, f) :
                               CheckNextAccPoly(q, f, cur.coef, cur.slice,
                                                cur.accumulator, na) = 0 } ] :
             AllZero(RunningSumGate(stp, b, q, f, cur, n)) }

(* The coef cell of a row is assigned when the row is checked; until then   *)
(* it holds 0, the value of an unassigned cell.                             *)
FirstRow(s, a) == [coef |-> 0, slice |-> s, accumulator |-> a]
NextRow(n) == [coef |-> 0, slice |-> n.slice, accumulator |-> n.accumulator]
WithCoef(row, c) == [row EXCEPT !.coef = c]
AssignCoef(rows, c) == [rows EXCEPT ![Len(rows)] = WithCoef(@, c)]

----------------------------------------------------------------------------
(* RunningSumSpec: one RunningSumConfig, rows checked against its gate *)

RsInit ==
    /\ LaneIdle
    /\ BcIdle
    /\ pc = "rows"
    /\ step \in 1 .. 4
    /\ base \in Bases
    /\ q_enable = <<>>
    /\ is_final = <<>>
    /\ \E s \in 0 .. MaxSlice, a \in 0 .. MaxAcc :
          cols = [b \in Bases |-> IF b = base THEN << FirstRow(s, a) >> ELSE <<>>]

(* The row after the last assigned one is assigned so that the last one     *)
(* satisfies the gate under selector values q, f.  The chain is followed    *)
(* while rows are enabled and not final.                                    *)
RsCheckRow ==
    /\ pc = "rows"
    /\ Len(q_enable) < MaxRows
    /\ \E q \in {0, 1}, f \in {0, 1}, c \in 0 .. MaxCoef :
         LET cur == WithCoef(cols[base][Len(cols[base])], c) IN
         \E n \in SatisfyingNext(step, base, q, f, cur) :
            /\ cols' = [cols EXCEPT ![base] = Append(AssignCoef(@, c), NextRow(n))]
            /\ q_enable' = Append(q_enable, q)
            /\ is_final' = Append(is_final, f)
            /\ pc' = IF q = 1 /\ f = 0 THEN "rows" ELSE "done"
    /\ UNCHANGED <<step, base>>
    /\ UNCHANGED laneVars
    /\ UNCHANGED bcVars

RsNext == RsCheckRow

RunningSumSpec == RsInit /\ [][RsNext]_vars

----------------------------------------------------------------------------
(* BlockCountAccConfig::configure, gate "accumulate block count" *)

(* the match on step has no arm for this step: unreachable!("expect step < 4") *)
BlockCountAccUnreachable(stp) == stp \notin {1, 2, 3}

(* The arms of the match on step, polynomial by polynomial:                 *)
(*   1 => block_count,               delta_step2,               delta_step3 *)
(*   2 =>                            delta_step2 - block_count, delta_step3 *)
(*   3 =>                            delta_step2,  delta_step3 - block_count *)

(* "block_count = 0", listed by the arm of step 1 only *)
BlockCountPoly(stp, block_count) ==
    IF stp = 1 THEN << block_count >> ELSE <<>>

(* variant: "delta_step2 = block_count" placed in the arm of step 3 *)
DeltaStep2Poly_wrong_arm(stp, block_count, delta_step2) ==
    IF stp = 3 THEN FSub(delta_step2, block_count) ELSE delta_step2

(* "delta_step2 = block_count" in the arm of step 2, "delta_step2 = 0" in   *)
(* the others *)
DeltaStep2Poly(stp, block_count, delta_step2) ==
    IF stp = 2 THEN FSub(delta_step2, block_count) ELSE delta_step2

(* "delta_step3 = block_count" in the arm of step 3, "delta_step3 = 0" in   *)
(* the others *)
DeltaStep3Poly(stp, block_count, delta_step3) ==
    IF stp = 3 THEN FSub(delta_step3, block_count) ELSE delta_step3

(* the polynomials of the gate on a row, in the order the arm lists them,   *)
(* each multiplied by q_enable *)
BlockCountAccGate(stp, q, cur, nxt) ==
    LET block_count == cur.block_count
        delta_step2 == FSub(nxt.step2_acc, cur.step2_acc)
        delta_step3 == FSub(nxt.step3_acc, cur.step3_acc)
        polys == BlockCountPoly(stp, block_count)
                 \o << DeltaStep2Poly(stp, block_count, delta_step2),
                       DeltaStep3Poly(stp, block_count, delta_step3) >>
    IN  [k \in 1 .. Len(polys) |-> FMul(q, polys[k])]

(* the (step2_acc, step3_acc) pairs of the next row with which the row      *)
(* `cur` satisfies the gate *)
SatisfyingTotals(stp, q, cur) ==
    { n \in [ step2_acc : { s2 \in Field :
                  FMul(q, DeltaStep2Poly(stp, cur.block_count,
                                         FSub(s2, cur.step2_acc))) = 0 },
              step3_acc : { s3 \in Field :
                  FMul(q, DeltaStep3Poly(stp, cur.block_count,
                                         FSub(s3, cur.step3_acc))) = 0 } ] :
        AllZero(BlockCountAccGate(stp, q, cur, n)) }

----------------------------------------------------------------------------
(* BlockCountFinalConfig::configure, gate "block count final check" *)

(* (lo..=hi).map(|x| acc - F::from(x)).reduce(|a, b| a * b): the product  *)
(* of the factors acc - x for x in lo..=hi.  The fold is evaluated by       *)
(* halves (field multiplication is associative) to keep the recursion       *)
(* shallow.                                                                 *)
RECURSIVE ZeroSetProduct(_, _, _)
ZeroSetProduct(acc, lo, hi) ==
    IF hi = lo THEN FSub(acc, FromU64(lo))
    ELSE LET mid == (lo + hi) \div 2 IN
         FMul(ZeroSetProduct(acc, lo, mid), ZeroSetProduct(acc, mid + 1, hi))

(* variant: exclusive ranges 0..12 and 0..13 * 13 *)
BlockCountFinalGate_exclusive(q, cur) ==
    << FMul(q, ZeroSetProduct(cur.step2_acc, 0, 11)),
       FMul(q, ZeroSetProduct(cur.step3_acc, 0, 13 * 13 - 1)) >>

BlockCountFinalGate(q, cur) ==
    << FMul(q, ZeroSetProduct(cur.step2_acc, 0, 12)),
       FMul(q, ZeroSetProduct(cur.step3_acc, 0, 13 * 13)) >>

----------------------------------------------------------------------------
(* BlockCountSpec: rows checked against BlockCountAccConfig gates.  Each    *)
(* row is in the region of one BlockCountAccConfig, of step 1, 2 or 3.      *)

(* The block_count cell of a row is assigned when the row is checked;      *)
(* until then it holds 0, the value of an unassigned cell.                  *)
BcRow(bc, s2, s3) == [block_count |-> bc, step2_acc |-> s2, step3_acc |-> s3]

BcInit ==
    /\ LaneIdle
    /\ RsIdle
    /\ pc = "rows"
    /\ bc_steps = <<>>
    /\ final_polys = <<>>
    /\ \E s2 \in 0 .. MaxFree, s3 \in 0 .. MaxFree :
          block_count_cols = << BcRow(0, s2, s3) >>

BcCheckRow ==
    /\ pc = "rows"
    /\ Len(bc_steps) < MaxRows
    /\ \E stp \in 1 .. 3, bc \in 0 .. MaxCoef :
         LET last == block_count_cols[Len(block_count_cols)]
             cur == BcRow(bc, last.step2_acc, last.step3_acc)
         IN  \E n \in SatisfyingTotals(stp, 1, cur) :
               /\ block_count_cols' =
                     Append([block_count_cols EXCEPT ![Len(block_count_cols)] = cur],
                            BcRow(0, n.step2_acc, n.step3_acc))
               /\ bc_steps' = Append(bc_steps, stp)
    /\ UNCHANGED <<pc, final_polys>>
    /\ UNCHANGED laneVars
    /\ UNCHANGED rsVars

BcNext == BcCheckRow

BlockCountSpec == BcInit /\ [][BcNext]_vars

----------------------------------------------------------------------------
(* FinalCheckSpec: one row with any two running totals, on which the       *)
(* "block count final check" gate is evaluated.                            *)

FcInit ==
    /\ LaneIdle
    /\ RsIdle
    /\ pc = "rows"
    /\ bc_steps = <<>>
    /\ final_polys = <<>>
    /\ \E s2 \in Field, s3 \in Field :
          block_count_cols = << BcRow(0, s2, s3) >>

FcEvaluate ==
    /\ pc = "rows"
    /\ \E q \in {0, 1} :
          final_polys' = << q, BlockCountFinalGate(q, block_count_cols[1]) >>
    /\ pc' = "done"
    /\ UNCHANGED <<block_count_cols, bc_steps>>
    /\ UNCHANGED laneVars
    /\ UNCHANGED rsVars

FcNext == FcEvaluate

FinalCheckSpec == FcInit /\ [][FcNext]_vars

----------------------------------------------------------------------------
(* Spec: LaneRotateConversionConfig::configure, then rows checked against   *)
(* the gates it created.                                                    *)
(*                                                                          *)
(* ChunkRotateConversionConfig::configure creates, for its step, the "mul"  *)
(* gate over the base-13 columns, the "mul" gate over the base-9 columns    *)
(* and the "accumulate block count" gate, every one of them on the same     *)
(* selector q_running_sum (is_final: q_is_running_sum_final) and the same   *)
(* columns as every other chunk of the lane.  A gate is recorded with the   *)
(* step and base it was built for.                                          *)

ChunkGates(stp) ==
    << [gate |-> "mul", step |-> stp, base |-> B13],
       [gate |-> "mul", step |-> stp, base |-> B9] >>
    \o (IF BlockCountAccUnreachable(stp)
        THEN <<>>
        ELSE << [gate |-> "accumulate block count", step |-> stp, base |-> 0] >>)

Init ==
    /\ keccak_rotation \in 0 .. (LANE_SIZE - 1)
    /\ chunk_idx = 1
    /\ chunk_rotate_convert_configs = <<>>
    /\ gates = <<>>
    /\ pc = "loop"
    /\ step = 1
    /\ base = B13
    /\ q_enable = <<>>
    /\ is_final = <<>>
    /\ \E s13 \in 0 .. MaxSlice, a13 \in 0 .. MaxFree,
          s9 \in 0 .. MaxSlice, a9 \in 0 .. MaxFree :
          cols = [b \in Bases |-> IF b = B13 THEN << FirstRow(s13, a13) >>
                                             ELSE << FirstRow(s9, a9) >>]
    /\ BcIdle

(* one iteration of `while chunk_idx < 64`: the Chunk unit is configured    *)
(* for the scheduled step; the construction stops in BlockCountAccConfig    *)
(* when the match on step has no arm for it.                                *)
ConfigureChunk ==
    /\ pc = "loop"
    /\ chunk_idx < 64
    /\ LET s == get_step_size(chunk_idx, keccak_rotation) IN
         /\ gates' = gates \o ChunkGates(s)
         /\ IF BlockCountAccUnreachable(s)
            THEN /\ pc' = "abort"
                 /\ UNCHANGED <<chunk_idx, chunk_rotate_convert_configs>>
            ELSE /\ chunk_idx' = chunk_idx + s
                 /\ chunk_rotate_convert_configs' = Append(chunk_rotate_convert_configs, s)
                 /\ pc' = IF chunk_idx + s < 64 THEN "loop" ELSE "done"
    /\ UNCHANGED <<keccak_rotation, step, base, q_enable, is_final, cols>>
    /\ UNCHANGED bcVars

(* One row per configured chunk, in scheduling order: the next row is       *)
(* assigned so that the chunk's row satisfies the running-sum constraints   *)
(* built for the chunk's own step, over both column triples.                *)
CheckChunkRow ==
    /\ pc \in {"done", "abort"}
    /\ Len(q_enable) < Len(chunk_rotate_convert_configs)
    /\ LET i == Len(q_enable) + 1
           s == chunk_rotate_convert_configs[i]
           f == IF pc = "done" /\ i = Len(chunk_rotate_convert_configs) THEN 1 ELSE 0
       IN  /\ \E c13 \in 0 .. MaxCoef, c9 \in 0 .. MaxCoef :
               \E n13 \in SatisfyingNext(s, B13, 1, f, WithCoef(cols[B13][i], c13)),
                  n9 \in SatisfyingNext(s, B9, 1, f, WithCoef(cols[B9][i], c9)) :
                   cols' = [b \in Bases |->
                               IF b = B13
                               THEN Append(AssignCoef(cols[b], c13), NextRow(n13))
                               ELSE Append(AssignCoef(cols[b], c9), NextRow(n9))]
           /\ q_enable' = Append(q_enable, 1)
           /\ is_final' = Append(is_final, f)
    /\ UNCHANGED <<pc, step, base>>
    /\ UNCHANGED laneVars
    /\ UNCHANGED bcVars

Next == ConfigureChunk \/ CheckChunkRow

Spec == Init /\ [][Next]_vars

----------------------------------------------------------------------------
(* Claims about the scheduler, checked under SchedSpec *)

Steps == chunk_rotate_convert_configs
NChunks == Len(chunk_rotate_convert_configs)

----------------------------------------------------------------------------
(* Claims about the Running-Sum gate, checked under RunningSumSpec *)

Rows == cols[base]
NChecked == Len(q_enable)

RECURSIVE PowMod(_, _)
PowMod(b, e) == IF e = 0 THEN 1 ELSE (b * PowMod(b, e - 1)) % P

RECURSIVE SumTerms(_, _)
SumTerms(rows, n) ==
    IF n = 0 THEN 0
    ELSE (SumTerms(rows, n - 1) + rows[n].coef * rows[n].slice) % P

EnabledChain(n) ==
    /\ n \in 1 .. NChecked
    /\ \A i \in 1 .. n : q_enable[i] = 1
    /\ \A i \in 1 .. (n - 1) : is_final[i] = 0

(* C4: along consecutive enabled rows with is_final set on the last one     *)
(* only, accumulator(i+1) = accumulator(i) - coef(i)*slice(i) on every row  *)
(* but the last, accumulator(n) - coef(n)*slice(n) = 0 on the last, and so  *)
(* accumulator(first) is the sum of coef(i)*slice(i); for either base.      *)
C4_AccumulatorTelescopes ==
    \A n \in 1 .. NChecked :
        EnabledChain(n) =>
           /\ \A i \in 1 .. n :
                 (is_final[i] = 0) =>
                    (Rows[i + 1].accumulator + Rows[i].coef * Rows[i].slice) % P
                       = Rows[i].accumulator
           /\ (is_final[n] = 1) =>
                 /\ Rows[n].accumulator = (Rows[n].coef * Rows[n].slice) % P
                 /\ Rows[1].accumulator = SumTerms(Rows, n)

C4_Witness ==
    /\ NChecked = 3
    /\ EnabledChain(3)
    /\ is_final[3] = 1
    /\ \A i \in 1 .. 3 : Rows[i].coef * Rows[i].slice # 0
    /\ Rows[1].accumulator # Rows[2].accumulator
    /\ base = B9

(* C10: on an enabled row, final or not, slice(next) = slice(cur) * B^step; *)
(* along enabled rows from the first, slice(i) = slice(first) * B^(step*i); *)
(* on a row whose enable flag is 0 all three polynomials of the gate are 0  *)
(* whatever the cells hold.                                                 *)
C10_SliceScaling ==
    /\ \A i \in 1 .. NChecked :
          (q_enable[i] = 1) =>
             Rows[i + 1].slice = (Rows[i].slice * PowMod(base, step)) % P
    /\ \A n \in 1 .. NChecked :
          (\A i \in 1 .. n : q_enable[i] = 1) =>
             Rows[n + 1].slice = (Rows[1].slice * PowMod(base, step * n)) % P
    /\ \A i \in 1 .. NChecked :
          (q_enable[i] = 0) =>
             AllZero(RunningSumGate(step, base, 0, is_final[i], Rows[i], Rows[i + 1]))

C10_Witness ==
    /\ NChecked = 3
    /\ q_enable = <<1, 1, 0>>
    /\ Rows[1].slice = 1
    /\ Rows[3].slice # 0
    /\ Rows[4].slice # (Rows[3].slice * PowMod(base, step)) % P
    /\ (Rows[4].accumulator + Rows[3].coef * Rows[3].slice) % P # Rows[3].accumulator
    /\ step = 4

----------------------------------------------------------------------------
(* Claims about the Lane unit, checked under Spec *)

(* C2: building a Lane unit never hands BlockCountAccConfig::configure a    *)
(* step outside {1,2,3}: every gate the lane creates is built for a step in *)
(* 1..3 and the construction never stops in the 'expect step < 4' branch.   *)
C2_NoUnreachableStep ==
    /\ pc # "abort"
    /\ \A k \in 1 .. Len(gates) : gates[k].step \in {1, 2, 3}

(* C9: a row assigned to satisfy the running-sum constraints of its own     *)
(* chunk's step satisfies every running-sum gate the Lane unit created,     *)
(* i.e. the gates of the other chunks do not bind that row.                 *)
C9_ChunkGatesBindOwnRowOnly ==
    \A i \in 1 .. Len(q_enable) :
        \A k \in 1 .. Len(gates) :
            (gates[k].gate = "mul") =>
                AllZero(RunningSumGate(gates[k].step, gates[k].base,
                                       q_enable[i], is_final[i],
                                       cols[gates[k].base][i],
                                       cols[gates[k].base][i + 1]))

----------------------------------------------------------------------------
(* Claims about the block-count gates *)

BcRows == block_count_cols

RECURSIVE SumBlockCounts(_, _, _)
SumBlockCounts(rows, n, stp) ==
    IF n = 0 THEN 0
    ELSE SumBlockCounts(rows, n - 1, stp)
           + (IF bc_steps[n] = stp THEN rows[n].block_count ELSE 0)

(* C5 (BlockCountSpec): over enabled rows each under a Block-Count          *)
(* Accumulator of step 1, 2 or 3, the step-2 total is its initial value     *)
(* plus the block-counts of the step-2 rows, the step-3 total its initial   *)
(* value plus the block-counts of the step-3 rows; a step-1 row has         *)
(* block-count 0 and changes neither total, a step-2 row leaves the step-3  *)
(* total unchanged and a step-3 row the step-2 total.                       *)
C5_BlockCountTotals ==
    /\ \A n \in 0 .. Len(bc_steps) :
          /\ BcRows[n + 1].step2_acc
                = (BcRows[1].step2_acc + SumBlockCounts(BcRows, n, 2)) % P
          /\ BcRows[n + 1].step3_acc
                = (BcRows[1].step3_acc + SumBlockCounts(BcRows, n, 3)) % P
    /\ \A i \in 1 .. Len(bc_steps) :
          /\ (bc_steps[i] = 1) =>
                /\ BcRows[i].block_count = 0
                /\ BcRows[i + 1].step2_acc = BcRows[i].step2_acc
                /\ BcRows[i + 1].step3_acc = BcRows[i].step3_acc
          /\ (bc_steps[i] = 2) => BcRows[i + 1].step3_acc = BcRows[i].step3_acc
          /\ (bc_steps[i] = 3) => BcRows[i + 1].step2_acc = BcRows[i].step2_acc

C5_Witness ==
    /\ bc_steps = <<2, 1, 3>>
    /\ BcRows[1].block_count = 2
    /\ BcRows[3].block_count = 1
    /\ BcRows[4].step2_acc = BcRows[1].step2_acc + 2
    /\ BcRows[4].step3_acc = BcRows[1].step3_acc + 1

(* C6 (FinalCheckSpec): on a row where the final check is enabled, its      *)
(* first polynomial is zero exactly when the step-2 total is one of 0..12   *)
(* and its second exactly when the step-3 total is one of 0..169; a step-2  *)
(* total of 13 or a step-3 total of 170 gives a non-zero polynomial.        *)
C6_FinalCheckZeroSet ==
    (final_polys # <<>> /\ final_polys[1] = 1) =>
        LET polys == final_polys[2]
            row == block_count_cols[1]
        IN  /\ (polys[1] = 0) <=> (row.step2_acc \in 0 .. 12)
            /\ (polys[2] = 0) <=> (row.step3_acc \in 0 .. 169)
            /\ AllZero(polys) <=>
                  (row.step2_acc \in 0 .. 12 /\ row.step3_acc \in 0 .. 169)
            /\ (row.step2_acc = 13) => polys[1] # 0
            /\ (row.step3_acc = 170) => polys[2] # 0

C6_Witness ==
    /\ final_polys # <<>>
    /\ final_polys[1] = 1
    /\ block_count_cols[1].step2_acc = 13
    /\ block_count_cols[1].step3_acc = 169
    /\ final_polys[2][1] # 0
    /\ final_polys[2][2] = 0

====
